---- MODULE Spec2Model ----
(***************************************************************************)
(* BlogService.getBlogPosts and the component hook that consumes it:       *)
(*                                                                         *)
(*   this.blogService.getBlogPosts()                                       *)
(*       .pipe(map(p => p.filter(x => x.id < 10)))                         *)
(*       .subscribe(response => { this.blogs = response; ... });           *)
(*                                                                         *)
(* getBlogPosts returns the observable of httpClient.get: nothing is sent  *)
(* until subscribe.  When the XHR settles, its handler runs to completion  *)
(* on one event-loop turn: on a 2xx response with a JSON body it calls     *)
(* next(body) and then complete(), otherwise error(HttpErrorResponse).     *)
(* The map operator applies its project function inside a try/catch and    *)
(* forwards a throw as an error notification.  A subscriber that is        *)
(* stopped (after error or complete) drops every later notification.       *)
(* The subscriber of the component passes a next callback only: an error   *)
(* notification reaches the subscriber's default handler, a complete       *)
(* notification does nothing.                                              *)
(***************************************************************************)
EXTENDS Integers, Sequences, FiniteSets

VARIABLES
    pc,         \* per activation: "none", "Idle", "Fetching", "Transforming", "Delivered", "Failed"
    piped,      \* per activation: the map step has been composed with pipe
    requests,   \* per activation: GET requests the transport has received
    response,   \* per activation: how the request settled
    turn,       \* activation whose XHR handler is running, 0 when none is
    calls,      \* observer calls the running handler still has to make
    isStopped,  \* per activation: the subscriber has seen error or complete
    log,        \* per activation: notifications delivered to the subscriber
    applied,    \* per activation: times the project function of map was called
    blogs,      \* AppComponent.blogs
    uncaught    \* activations whose handler let an exception escape

vars == <<pc, piped, requests, response, turn, calls, isStopped, log, applied, blogs, uncaught>>

----------------------------------------------------------------------------
(* Bounds *)

MaxAct == 2
MaxLen == 1
FilterMaxLen == 4

Act == 1..MaxAct

----------------------------------------------------------------------------
(* Data *)

\* An element of the response array: a Blog (only id is read), or null.
Post(i) == [null |-> FALSE, id |-> i]
NullElem == [null |-> TRUE, id |-> 0]

SeqsUpTo(S, n) == UNION {[1..k -> S] : k \in 0..n}

\* Response bodies of the concurrent specification: ids on both sides of
\* the threshold, and the malformed element.
Elems == {Post(9), Post(10), NullElem}
Bodies == SeqsUpTo(Elems, MaxLen)

\* Response bodies of the filter specification: well-formed posts, with ids
\* below, just below, at and above the threshold.
FilterElems == {Post(1), Post(9), Post(10), Post(15)}
FilterBodies == SeqsUpTo(FilterElems, FilterMaxLen)

NoResponse == [type |-> "none", status |-> 0, body |-> <<>>]
Ok(b) == [type |-> "ok", status |-> 200, body |-> b]
BadStatus(s) == [type |-> "status", status |-> s, body |-> <<>>]
NetworkError == [type |-> "network", status |-> 0, body |-> <<>>]
BadJson == [type |-> "badjson", status |-> 200, body |-> <<>>]

Failures == {BadStatus(404), BadStatus(500), NetworkError, BadJson}
Outcomes == {Ok(b) : b \in Bodies} \cup Failures

NoError == [name |-> "", status |-> 0]
HttpErrorResponse(s) == [name |-> "HttpErrorResponse", status |-> s]
TypeError == [name |-> "TypeError", status |-> 0]

NextN(v) == [k |-> "next", v |-> v, e |-> NoError]
ErrorN(e) == [k |-> "error", v |-> <<>>, e |-> e]
CompleteN == [k |-> "complete", v |-> <<>>, e |-> NoError]
ThrowN(e) == [k |-> "throw", v |-> <<>>, e |-> e]

----------------------------------------------------------------------------
(* The transformation step: p => p.filter(x => x.id < 10) *)

PredicateLe(x) == x.id <= 10

\* x => x.id < 10
Predicate(x) == x.id < 10

\* Array.prototype.filter, element by element from the left.  Reading .id of
\* null throws a TypeError, which ends the iteration.
RECURSIVE FilterFrom(_, _, _)
FilterFrom(p, i, acc) ==
    IF i > Len(p) THEN [ok |-> TRUE, val |-> acc]
    ELSE IF p[i].null THEN [ok |-> FALSE, val |-> <<>>]
    ELSE IF Predicate(p[i]) THEN FilterFrom(p, i + 1, Append(acc, p[i]))
    ELSE FilterFrom(p, i + 1, acc)

Project(p) == FilterFrom(p, 1, <<>>)

MapNextNoCatch(p) ==
    LET r == Project(p) IN IF r.ok THEN NextN(r.val) ELSE ThrowN(TypeError)

\* map(project): what the operator hands downstream for an upstream next(p).
\* A throw of project is caught and handed on as an error notification.
MapNext(p) ==
    LET r == Project(p) IN IF r.ok THEN NextN(r.val) ELSE ErrorN(TypeError)

\* What reaches the subscriber for the observer call c of activation a:
\* only next goes through project, error and complete pass unchanged.
Forward(a, c) == IF piped[a] /\ c.k = "next" THEN MapNext(c.v) ELSE c

----------------------------------------------------------------------------
(* The producer: the observer calls of the XHR handler *)

OnLoadCallsTwice(o) == <<NextN(o.body), NextN(o.body), CompleteN>>
OnLoadCallsSwapped(o) == <<CompleteN, NextN(o.body)>>

\* 2xx with a JSON body: next(body), then complete().
OnLoadCalls(o) == <<NextN(o.body), CompleteN>>

OnFailCallsSwallowed(o) == <<NextN(<<>>), CompleteN>>

\* Anything else: error(HttpErrorResponse) carrying the status; the service
\* adds no retry and no catchError.
OnFailCalls(o) == <<ErrorN(HttpErrorResponse(o.status))>>

ProducerCalls(o) == IF o.type = "ok" THEN OnLoadCalls(o) ELSE OnFailCalls(o)

----------------------------------------------------------------------------
(* Requests *)

CreateRequestsEager(a) == [requests EXCEPT ![a] = @ + 1]

\* getBlogPosts() returns the observable of httpClient.get; nothing is sent.
CreateRequests(a) == requests

SubscribeRequestsCached(a) ==
    IF \E b \in Act : requests[b] > 0 THEN requests
    ELSE [requests EXCEPT ![a] = @ + 1]
SubscribeRequestsPerStage(a) ==
    [requests EXCEPT ![a] = IF piped[a] THEN @ + 2 ELSE @ + 1]

\* subscribe: one GET for this subscription, whatever was piped onto it.
SubscribeRequests(a) == [requests EXCEPT ![a] = @ + 1]

----------------------------------------------------------------------------
(* The subscriber *)

StopSubscriberShared(a) == [b \in Act |-> TRUE]

\* error and complete stop the subscriber of this subscription.
StopSubscriber(a) == [isStopped EXCEPT ![a] = TRUE]

\* response => { this.blogs = response; ... }
OnNextBlogs(v) == v

OnErrorBlogsCleared == <<>>

\* No error callback is passed to subscribe: blogs is left as it is.
OnErrorBlogs == blogs

----------------------------------------------------------------------------
(* Actions *)

Init ==
    /\ pc = [a \in Act |-> "none"]
    /\ piped = [a \in Act |-> FALSE]
    /\ requests = [a \in Act |-> 0]
    /\ response = [a \in Act |-> NoResponse]
    /\ turn = 0
    /\ calls = <<>>
    /\ isStopped = [a \in Act |-> FALSE]
    /\ log = [a \in Act |-> <<>>]
    /\ applied = [a \in Act |-> 0]
    /\ blogs = <<>>
    /\ uncaught = {}

\* this.blogService.getBlogPosts()
getBlogPosts(a) ==
    /\ turn = 0
    /\ pc[a] = "none"
    /\ pc' = [pc EXCEPT ![a] = "Idle"]
    /\ requests' = CreateRequests(a)
    /\ UNCHANGED <<piped, response, turn, calls, isStopped, log, applied, blogs, uncaught>>

\* .pipe(map(p => p.filter(x => x.id < 10)))
pipe(a) ==
    /\ turn = 0
    /\ pc[a] = "Idle"
    /\ ~piped[a]
    /\ piped' = [piped EXCEPT ![a] = TRUE]
    /\ UNCHANGED <<pc, requests, response, turn, calls, isStopped, log, applied, blogs, uncaught>>

\* .subscribe(response => { ... })
subscribe(a) ==
    /\ turn = 0
    /\ pc[a] = "Idle"
    /\ pc' = [pc EXCEPT ![a] = "Fetching"]
    /\ requests' = SubscribeRequests(a)
    /\ UNCHANGED <<piped, response, turn, calls, isStopped, log, applied, blogs, uncaught>>

\* The request of activation a settles with outcome o: its handler starts.
XhrLoad(a, o) ==
    /\ turn = 0
    /\ pc[a] = "Fetching"
    /\ response' = [response EXCEPT ![a] = o]
    /\ turn' = a
    /\ calls' = ProducerCalls(o)
    /\ pc' = [pc EXCEPT ![a] = IF o.type = "ok" THEN "Transforming" ELSE @]
    /\ UNCHANGED <<piped, requests, isStopped, log, applied, blogs, uncaught>>

\* The running handler makes its next observer call.
Dispatch(a) ==
    /\ turn = a
    /\ calls # <<>>
    /\ LET c == Head(calls)
           n == Forward(a, c)
           rest == IF ~isStopped[a] /\ n.k = "throw" THEN <<>> ELSE Tail(calls)
       IN  /\ calls' = rest
           /\ turn' = IF rest = <<>> THEN 0 ELSE a
           /\ IF isStopped[a]
              THEN UNCHANGED <<pc, isStopped, log, applied, blogs, uncaught>>
              ELSE /\ applied' = [applied EXCEPT ![a] =
                                    IF piped[a] /\ c.k = "next" THEN @ + 1 ELSE @]
                   /\ log' = [log EXCEPT ![a] =
                                IF n.k = "throw" THEN @ ELSE Append(@, n)]
                   /\ isStopped' = IF n.k \in {"error", "complete"}
                                   THEN StopSubscriber(a) ELSE isStopped
                   /\ pc' = [pc EXCEPT ![a] =
                               CASE n.k = "error" -> "Failed"
                                 [] n.k = "complete" -> "Delivered"
                                 [] OTHER -> @]
                   /\ blogs' = CASE n.k = "next" -> OnNextBlogs(n.v)
                                 [] n.k = "error" -> OnErrorBlogs
                                 [] OTHER -> blogs
                   /\ uncaught' = IF n.k = "throw" THEN uncaught \cup {a} ELSE uncaught
    /\ UNCHANGED <<piped, requests, response>>

Next ==
    \E a \in Act :
        \/ getBlogPosts(a)
        \/ pipe(a)
        \/ subscribe(a)
        \/ \E o \in Outcomes : XhrLoad(a, o)
        \/ Dispatch(a)

Spec == Init /\ [][Next]_vars

\* One activation, every well-formed response body up to FilterMaxLen.
NextFilter ==
    \/ getBlogPosts(1)
    \/ pipe(1)
    \/ subscribe(1)
    \/ \E b \in FilterBodies : XhrLoad(1, Ok(b))
    \/ Dispatch(1)

SpecFilter == Init /\ [][NextFilter]_vars

----------------------------------------------------------------------------
(* Vocabulary of the properties *)

Count(a, k) == Cardinality({i \in 1..Len(log[a]) : log[a][i].k = k})

Activated == {a \in Act : pc[a] \notin {"none", "Idle"}}

RECURSIVE SumRequests(_)
SumRequests(n) == IF n = 0 THEN 0 ELSE requests[n] + SumRequests(n - 1)
TotalRequests == SumRequests(MaxAct)

FetchFailed(a) == response[a].type \in {"status", "network", "badjson"}
HasNull(b) == \E i \in 1..Len(b) : b[i].null

\* v is the sub-sequence of R of the elements with id < 10, in R's order:
\* the j-th kept position of R supplies v at its rank among the kept ones.
KeptIdx(R) == {j \in 1..Len(R) : R[j].id < 10}
IsSubSeqLt10(v, R) ==
    /\ Len(v) = Cardinality(KeptIdx(R))
    /\ \A j \in KeptIdx(R) : v[Cardinality({k \in KeptIdx(R) : k <= j})] = R[j]

\* Everything an activation owns.
Local(a) == <<pc[a], piped[a], requests[a], response[a], isStopped[a], log[a], applied[a]>>

----------------------------------------------------------------------------
(* C1: in every activation the subscriber gets at most one next, at most   *)
(* one complete and at most one error, never complete together with        *)
(* error, and nothing more once the activation is Delivered or Failed.     *)

C1_AtMostOnce ==
    \A a \in Act :
        /\ Count(a, "next") <= 1
        /\ Count(a, "complete") <= 1
        /\ Count(a, "error") <= 1
        /\ ~(Count(a, "complete") > 0 /\ Count(a, "error") > 0)

C1_Terminal ==
    [][\A a \in Act : pc[a] \in {"Delivered", "Failed"} => log'[a] = log[a]]_vars

\* C1: at most one next, one complete, one error per activation, complete and
\* error never both, and no notification after Delivered or Failed.
C1_SingleOutcome == []C1_AtMostOnce /\ C1_Terminal

\* A map throw has failed one activation and the handler's trailing
\* complete() has been dropped; another activation was delivered.
C1_Witness ==
    \E a, b \in Act :
        /\ pc[a] = "Failed" /\ response[a].type = "ok" /\ turn = 0
        /\ pc[b] = "Delivered"

C3_OneRequestPerActivation ==
    /\ TotalRequests = Cardinality(Activated)
    /\ \A a \in Activated : requests[a] = 1

\* Two activations, the first already answered, and two requests.
C3_Witness ==
    \E a, b \in Act :
        /\ a # b /\ pc[a] \in {"Delivered", "Failed"} /\ pc[b] = "Fetching"
        /\ TotalRequests = 2

\* C4: a producer that has been created (and piped) but not subscribed has
\* issued no request and caused no callback.
C4_InertUntilSubscribed ==
    \A a \in Act :
        pc[a] \in {"none", "Idle"} =>
            /\ requests[a] = 0
            /\ log[a] = <<>>
            /\ applied[a] = 0
            /\ response[a] = NoResponse
            /\ turn # a

\* A piped producer still idle while another activation was delivered.
C4_Witness ==
    \E a, b \in Act :
        /\ pc[a] = "Idle" /\ piped[a]
        /\ pc[b] = "Delivered" /\ TotalRequests = 1

\* C5: when the request fails the subscriber gets error, with the status of
\* a non-2xx response, never next or complete, and the request is not
\* repeated.
C5_FailureToError ==
    \A a \in Act :
        FetchFailed(a) =>
            /\ requests[a] = 1
            /\ Count(a, "next") = 0
            /\ Count(a, "complete") = 0
            /\ turn # a =>
                  /\ pc[a] = "Failed"
                  /\ Len(log[a]) = 1
                  /\ log[a][1].k = "error"
                  /\ response[a].type = "status" =>
                        log[a][1].e.status = response[a].status

\* A status-500 response has been delivered as an error carrying 500.
C5_Witness ==
    \E a \in Act :
        /\ response[a] = BadStatus(500)
        /\ log[a] = <<ErrorN(HttpErrorResponse(500))>>
        /\ turn = 0

C7_CompleteAfterNext ==
    \A a \in Act :
        Count(a, "complete") > 0 =>
            /\ Len(log[a]) = 2
            /\ log[a][1].k = "next"
            /\ log[a][2].k = "complete"
            /\ IF piped[a] THEN IsSubSeqLt10(log[a][1].v, response[a].body)
                           ELSE log[a][1].v = response[a].body

C7_Immediately ==
    [][\A a \in Act :
          (Len(log[a]) = 1 /\ log[a][1].k = "next") =>
              /\ log'[a] = Append(log[a], CompleteN)
              /\ \A b \in Act \ {a} : log'[b] = log[b]]_vars

\* C7: on success next comes first, with the transformed collection, and
\* the very next step is the complete of the same activation; complete never
\* comes without the next before it.
C7_NextThenComplete == []C7_CompleteAfterNext /\ C7_Immediately

\* A piped activation delivered a non-empty filtered collection and completed.
C7_Witness ==
    \E a \in Act :
        /\ piped[a] /\ pc[a] = "Delivered"
        /\ log[a] = <<NextN(<<Post(9)>>), CompleteN>>

\* C8: the step is applied at most once, only after a successful fetch of
\* the same activation, never while Idle or Fetching nor after a failed
\* fetch, and piping adds no request.
C8_StepsAfterFetch ==
    \A a \in Act :
        /\ applied[a] <= 1
        /\ applied[a] > 0 =>
              /\ piped[a]
              /\ response[a].type = "ok"
              /\ pc[a] \in {"Transforming", "Delivered", "Failed"}
        /\ requests[a] <= 1

\* One piped activation applied the step once with one request; another
\* piped activation failed to fetch and applied nothing.
C8_Witness ==
    \E a, b \in Act :
        /\ piped[a] /\ applied[a] = 1 /\ requests[a] = 1
        /\ piped[b] /\ FetchFailed(b) /\ pc[b] = "Failed" /\ applied[b] = 0

C9_OwnOutcome ==
    \A a \in Act :
        /\ (response[a] # NoResponse /\ turn # a) => log[a] # <<>>
        /\ log[a] # <<>> =>
              CASE log[a][1].k = "next" ->
                      /\ response[a].type = "ok"
                      /\ IF piped[a]
                         THEN IsSubSeqLt10(log[a][1].v, response[a].body)
                         ELSE log[a][1].v = response[a].body
                [] log[a][1].k = "error" ->
                      IF FetchFailed(a)
                      THEN log[a][1].e = HttpErrorResponse(response[a].status)
                      ELSE piped[a] /\ HasNull(response[a].body)
                [] OTHER -> FALSE

C9_NoInterference ==
    [][\A a, b \in Act :
          (a # b /\ Local(a)' # Local(a)) => Local(b)' = Local(b)]_vars

\* C9: each subscriber receives the outcome of its own request, and a step
\* of one activation changes nothing another activation owns.
C9_Isolation == []C9_OwnOutcome /\ C9_NoInterference

\* One handler is midway (next delivered) while another request is in flight.
C9_Witness ==
    \E a, b \in Act :
        /\ a # b /\ turn = a /\ Count(a, "next") = 1
        /\ pc[b] = "Fetching"

C10_OnlyNextWrites ==
    [][blogs' # blogs =>
          \E a \in Act :
              /\ log'[a] = Append(log[a], NextN(blogs'))
              /\ piped[a] => IsSubSeqLt10(blogs', response[a].body)]_vars

C10_ErrorKeeps ==
    [][\A a \in Act :
          (Count(a, "error")' > Count(a, "error")) => blogs' = blogs]_vars

C10_EmptyBeforeDelivery ==
    (\A a \in Act : Count(a, "next") = 0) => blogs = <<>>

\* C10: blogs starts empty, is written only by the next callback (with the
\* delivered collection, the filtered one when piped), keeps its value when
\* an activation ends in error, and is empty until a next is delivered.
C10_BlogsFrame ==
    /\ blogs = <<>>
    /\ C10_OnlyNextWrites
    /\ C10_ErrorKeeps
    /\ []C10_EmptyBeforeDelivery

\* An error has just been delivered (its handler is still running) while
\* blogs holds the collection of an earlier activation.
C10_Witness ==
    \E a \in Act :
        /\ turn = a /\ pc[a] = "Failed"
        /\ blogs = <<Post(9)>>

====
